---- MODULE Spec2Model ----
(***************************************************************************)
(* Prediction resilience and correction reconciliation of FormMonkey:      *)
(* the circuit breaker, the model chain, the rate limiter and the          *)
(* correction version control of docs/ai-error-handling-strategy.md, the   *)
(* correction validators, the batch processor, the conflict resolver and   *)
(* the autosave hook of the frontend.                                      *)
(*                                                                         *)
(* The services are asyncio coroutines: a coroutine runs without           *)
(* interruption up to an await that really suspends (the backend call,     *)
(* asyncio.sleep).  One action of the model is one such uninterrupted run. *)
(***************************************************************************)
EXTENDS Integers, Sequences, FiniteSets, TLC

(***************************************************************************)
(* Bounds of the model.                                                    *)
(***************************************************************************)
\* the clock runs from 0 to MaxTime, in ticks
MaxTime == 12
\* AIServiceCircuitBreaker(recovery_timeout=...) in ticks, instantiated small so
\* that recovery happens within MaxTime
recovery_timeout == 2

\* clock ticks in timedelta(minutes=1) and in one strftime("%Y-%m-%d-%H") bucket
MinuteTicks == 3
HourTicks == 9
\* RateLimiter(requests_per_minute=..., cost_per_request=..., max_hourly_cost=...),
\* instantiated small; costs are counted in units of cost_per_request's currency
requests_per_minute == 2
cost_per_request == 1
max_hourly_cost == 4

\* versions saved over all fields in one run of the version control
MaxVersions == 4

(***************************************************************************)
(* Program constants.                                                      *)
(***************************************************************************)
failure_threshold == 5
success_threshold == 3
\* RetryStrategy.max_attempts
max_attempts == 3

Callers == {"c1", "c2"}
Models == {"local", "openai", "anthropic"}
\* the breaker the concurrent callers of SpecCB share
CBModel == "openai"

CLOSED == "closed"
OPEN == "open"
HALF_OPEN == "half_open"
\* last_failure_time = None
NoTime == -1

VARIABLES
    now,        \* datetime.now()
    cb,         \* AIModelChain.circuit_breakers: model -> breaker fields
    cbpc,       \* caller -> "idle" | "in_call" (suspended in await service_func)
    cbOut,      \* caller -> how its last call_with_protection ended
    ev,         \* history: the operation the last step performed
    consecFail, \* history: model -> _on_failure runs since the last _on_success
    hoSucc,     \* history: model -> successes recorded since HALF_OPEN was entered
    request_timestamps, \* RateLimiter.request_timestamps
    hourly_costs,       \* RateLimiter.hourly_costs: hour -> cost (0 by default)
    recentAdmits,       \* history: times of the admissions of the trailing minute
    billed,             \* history: hour -> cost of the requests admitted in it
    correction_history, \* CorrectionVersionControl.correction_history
    field_snapshots,    \* CorrectionVersionControl.field_snapshots
    wrote,              \* history: what the last two saves or rollbacks appended
    rq,                 \* request -> where its predict_with_resilience stands
    sp,                 \* caller -> where its safe_predict_fields stands
    val,                \* the last validation: its arguments and what it returned
    bp,                 \* CorrectionBatchProcessor: its queues and its flush timer
    cr,                 \* the last call of the conflict resolver and its result
    autoSave            \* useAutoSave: its React state and its saves in flight

cbVars == <<cb, cbpc, cbOut, consecFail, hoSucc>>
rlVars == <<request_timestamps, hourly_costs, recentAdmits, billed>>
vcVars == <<correction_history, field_snapshots, wrote>>
\* the variables of the services defined further down
auxVars == <<sp, val, bp, cr, autoSave>>
vars == <<now, cb, cbpc, cbOut, ev, consecFail, hoSucc,
          request_timestamps, hourly_costs, recentAdmits, billed,
          correction_history, field_snapshots, wrote, rq, sp, val, bp, cr, autoSave>>

(***************************************************************************)
(* AIServiceCircuitBreaker                                                 *)
(***************************************************************************)
NewBreaker ==
    [state |-> CLOSED, failure_count |-> 0, success_count |-> 0,
     last_failure_time |-> NoTime]

should_attempt_reset(b, t) ==
    IF b.last_failure_time = NoTime
    THEN TRUE
    ELSE t - b.last_failure_time > recovery_timeout

\* faulty variant: entering HALF_OPEN keeps the success count of the previous recovery
half_open_entry_keeps_successes(b) ==
    [b EXCEPT !.state = HALF_OPEN]

\* faulty variant: entering HALF_OPEN also clears the failure count
half_open_entry_clears_failures(b) ==
    [b EXCEPT !.state = HALF_OPEN, !.success_count = 0, !.failure_count = 0]

\* the OPEN branch of call_with_protection that lets the call through
half_open_entry(b) ==
    [b EXCEPT !.state = HALF_OPEN, !.success_count = 0]

\* call_with_protection raises AIServiceUnavailableError
guard_rejects(b, t) ==
    b.state = OPEN /\ ~should_attempt_reset(b, t)

\* the breaker after the state check of call_with_protection let the call through
guard_pass(b, t) ==
    IF b.state = OPEN THEN half_open_entry(b) ELSE b

on_success(b) ==
    IF b.state = HALF_OPEN
    THEN IF b.success_count + 1 >= success_threshold
         THEN [b EXCEPT !.success_count = b.success_count + 1,
                        !.state = CLOSED, !.failure_count = 0]
         ELSE [b EXCEPT !.success_count = b.success_count + 1]
    ELSE IF b.state = CLOSED
         THEN [b EXCEPT !.failure_count = 0]
         ELSE b

\* faulty variant: the failure count stops at the threshold
on_failure_saturates(b, t) ==
    IF b.failure_count + 1 >= failure_threshold
    THEN [b EXCEPT !.failure_count = failure_threshold,
                   !.last_failure_time = t, !.state = OPEN]
    ELSE [b EXCEPT !.failure_count = b.failure_count + 1,
                   !.last_failure_time = t]

\* faulty variant: the breaker opens one failure late
on_failure_opens_late(b, t) ==
    IF b.failure_count + 1 > failure_threshold
    THEN [b EXCEPT !.failure_count = b.failure_count + 1,
                   !.last_failure_time = t, !.state = OPEN]
    ELSE [b EXCEPT !.failure_count = b.failure_count + 1,
                   !.last_failure_time = t]

on_failure(b, t) ==
    IF b.failure_count + 1 >= failure_threshold
    THEN [b EXCEPT !.failure_count = b.failure_count + 1,
                   !.last_failure_time = t, !.state = OPEN]
    ELSE [b EXCEPT !.failure_count = b.failure_count + 1,
                   !.last_failure_time = t]

(***************************************************************************)
(* RateLimiter                                                             *)
(***************************************************************************)
Hours == 0 .. (MaxTime \div HourTicks)

\* now.strftime("%Y-%m-%d-%H")
current_hour(t) == t \div HourTicks

\* faulty variant: the cleaning also drops the oldest second of the minute
clean_old_timestamps_drops_more(ts, t) ==
    SelectSeq(ts, LAMBDA x : x > (t - MinuteTicks) + 1)

\* [ts for ts in self.request_timestamps if ts > minute_ago]
clean_old_timestamps(ts, t) ==
    SelectSeq(ts, LAMBDA x : x > t - MinuteTicks)

\* faulty variant: the rate check lets one request too many through
rate_limit_exceeded_off_by_one(ts) ==
    Len(ts) > requests_per_minute

rate_limit_exceeded(ts) ==
    Len(ts) >= requests_per_minute

\* faulty variant: the cost check forgets the cost of the request itself
cost_limit_exceeded_without_request(costs, h) ==
    costs[h] > max_hourly_cost

cost_limit_exceeded(costs, h) ==
    costs[h] + cost_per_request > max_hourly_cost

(***************************************************************************)
(* CorrectionVersionControl.  The two dicts are functions whose domain is   *)
(* the set of keys.  A version id f"{field_id}_{n}" is the pair <<f, n>>.   *)
(* The isoformat timestamps and the confidence_change of a snapshot are    *)
(* left out: no operation reads them.                                      *)
(***************************************************************************)
Fields == {"f1", "f2"}
Values == {"A", "B"}
ROLLBACK == "rollback"
USER_EDIT == "user_edit"
\* target_version = None
NoVersion == <<"none", 0>>
VersionIds == {<<f, n>> : f \in Fields, n \in 0 .. MaxVersions}

Last(q) == q[Len(q)]

\* "if field_id not in self.correction_history": create the empty lists
with_field(d, f) ==
    IF f \in DOMAIN d THEN d ELSE d @@ (f :> <<>>)

\* faulty variant: the version number is the number of fields, not of this field's versions
new_version_id_counts_fields(history, f) ==
    <<f, Cardinality(DOMAIN history)>>

\* f"{field_id}_{len(self.correction_history[field_id])}"
new_version_id(history, f) ==
    <<f, Len(history[f])>>

\* faulty variant: the field's list is created anew on every save
store_resets(d, f, x) ==
    [with_field(d, f) EXCEPT ![f] = <<x>>]

\* self.<dict>[field_id].append(x), after the initialisation of the field
store(d, f, x) ==
    [with_field(d, f) EXCEPT ![f] = Append(@, x)]

\* save_correction_version: the two dicts after the call and the id returned
save_correction_version(history, snapshots, f, correction, previous_state) ==
    LET version_id == new_version_id(with_field(history, f), f)
        snapshot == [version_id |-> version_id,
                     previous_value |-> previous_state.value,
                     new_value |-> correction.correctedValue,
                     correction_reason |-> correction.correctionReason,
                     user_id |-> correction.userId]
    IN  [history |-> store(history, f, correction),
         snapshots |-> store(snapshots, f, snapshot),
         version_id |-> version_id]

\* faulty variant: the number of versions is looked at before the target
rollback_error_counts_first(snapshots, f, target_version) ==
    IF f \notin DOMAIN snapshots THEN "no_history"
    ELSE IF Len(snapshots[f]) < 2 THEN "no_previous"
    ELSE IF target_version # NoVersion
            /\ \A i \in 1 .. Len(snapshots[f]) :
                   snapshots[f][i].version_id # target_version
         THEN "version_not_found"
         ELSE "none"

\* the ValueError rollback_correction raises, or "none"
rollback_error(snapshots, f, target_version) ==
    IF f \notin DOMAIN snapshots THEN "no_history"
    ELSE IF snapshots[f] = <<>> THEN "no_versions"
    ELSE IF target_version # NoVersion
         THEN IF \E i \in 1 .. Len(snapshots[f]) :
                     snapshots[f][i].version_id = target_version
              THEN "none"
              ELSE "version_not_found"
         ELSE IF Len(snapshots[f]) < 2 THEN "no_previous" ELSE "none"

\* target_snapshot of rollback_correction (when it raises nothing)
rollback_target(snapshots, f, target_version) ==
    IF target_version # NoVersion
    THEN LET i == CHOOSE k \in 1 .. Len(snapshots[f]) :
                    /\ snapshots[f][k].version_id = target_version
                    /\ \A j \in 1 .. k - 1 :
                           snapshots[f][j].version_id # target_version
         IN  snapshots[f][i]
    ELSE snapshots[f][Len(snapshots[f]) - 1]

\* the UserCorrection rollback_correction builds
rollback_correction_of(target_snapshot) ==
    [correctedValue |-> target_snapshot.previous_value,
     correctionReason |-> ROLLBACK,
     userId |-> "system"]

TotalVersions ==
    LET RECURSIVE Sum(_)
        Sum(S) == IF S = {} THEN 0
                  ELSE LET f == CHOOSE x \in S : TRUE
                       IN  Len(field_snapshots[f]) + Sum(S \ {f})
    IN  Sum(DOMAIN field_snapshots)

(***************************************************************************)
(* AIModelChain.predict_with_resilience.  rq[r] holds the loop variables   *)
(* of request r: the index of the model in model_priorities, the attempt,  *)
(* last_error, and where the coroutine stands:                             *)
(*   "try"      at the top of the try block of an attempt                  *)
(*   "in_call"  suspended in the await of the model's prediction           *)
(*   "sleeping" suspended in asyncio.sleep(delay)                          *)
(*   "returned" ended by return result                                     *)
(*   "raised"   ended by raise AIServiceError("All AI models failed ...")  *)
(*   "cancelled" ended by asyncio.CancelledError at an await               *)
(* History fields record what the request did so far: invoked, the number  *)
(* of times each model's prediction was entered, skipped, the models whose *)
(* breaker raised AIServiceUnavailableError, and before, the breaker as    *)
(* the latest attempt through call_with_protection found it.               *)
(***************************************************************************)
Requests == {"r1"}
REGEX_FALLBACK == "regex_fallback"
model_priorities == <<"local", "openai", "anthropic", REGEX_FALLBACK>>
NoError == "none"
\* the names _get_circuit_breaker is called with: a breaker is made for the
\* fallback too
Breakers == Models \cup {REGEX_FALLBACK}

\* faulty variant: every model is called through its breaker
protected_all(m) == TRUE

\* the prediction of model m is awaited through call_with_protection
protected(m) == m # REGEX_FALLBACK
NoResult == [model_used |-> "none"]

\* the second component of the pairs of model_priorities, in tenths
priority_of ==
    [i \in 1 .. Len(model_priorities) |-> <<10, 8, 7, 5>>[i]]

NewRequest ==
    [pc |-> "try", model |-> 1, attempt |-> 0, last_error |-> NoError,
     result |-> NoResult,
     invoked |-> [i \in 1 .. Len(model_priorities) |-> 0], skipped |-> {},
     before |-> NewBreaker]

\* history: the prediction of the model q stands at is entered
Invoked(q) == [q EXCEPT !.invoked[q.model] = @ + 1]
\* history: the breaker of the model q stands at turned the call away
Skipped(q) == [q EXCEPT !.skipped = @ \cup {q.model}]

\* history: the attempt q starts found the model's breaker as b
Before(q, b) == [q EXCEPT !.before = b]

model_name(q) == model_priorities[q.model]

\* "break" out of the attempt loop: the next model, or the raise after the loop
next_model(q) ==
    IF q.model < Len(model_priorities)
    THEN [q EXCEPT !.model = q.model + 1, !.attempt = 0, !.pc = "try"]
    ELSE [q EXCEPT !.pc = "raised"]

\* faulty variant: an open breaker is handled like any other exception
on_unavailable_retries(q) ==
    IF q.attempt < max_attempts - 1
    THEN [q EXCEPT !.pc = "sleeping"]
    ELSE next_model(q)

\* "except AIServiceUnavailableError: break"
on_unavailable(q) == next_model(q)

\* faulty variant: the first exception of a model already moves to the next model
on_exception_gives_up(q, e) ==
    next_model([q EXCEPT !.last_error = e])

\* faulty variant: the sleep also follows the last attempt
on_exception_always_sleeps(q, e) ==
    [q EXCEPT !.last_error = e, !.pc = "sleeping"]

\* "except Exception as e": sleep before the next attempt, or break after the last
on_exception(q, e) ==
    IF q.attempt < max_attempts - 1
    THEN [q EXCEPT !.last_error = e, !.pc = "sleeping"]
    ELSE next_model([q EXCEPT !.last_error = e])

\* faulty variant: asyncio.CancelledError is handled like any other exception
on_cancelled_retries(q) == on_exception(q, "cancelled")

\* asyncio.CancelledError is no Exception: neither except clause catches
\* it, and it ends the coroutine
on_cancelled(q) == [q EXCEPT !.pc = "cancelled"]

\* faulty variant: the result is returned without the check of _is_prediction_valid
on_result_unchecked(q, valid) ==
    [q EXCEPT !.pc = "returned",
              !.result = [model_used |-> model_name(q),
                          attempt |-> q.attempt + 1,
                          valid |-> valid]]

\* a result came back: return it when _is_prediction_valid, else raise
\* AIServiceError("Invalid prediction ...") into the handler above
on_result(q, valid) ==
    IF valid
    THEN [q EXCEPT !.pc = "returned",
                   !.result = [model_used |-> model_name(q),
                               attempt |-> q.attempt + 1,
                               valid |-> TRUE]]
    ELSE on_exception(q, "invalid")

(***************************************************************************)
(* History variables of a breaker, written from the step taken and not     *)
(* from the breaker's own counters.                                        *)
(***************************************************************************)
HistGuard(m, b, b2) ==
    /\ hoSucc' = [hoSucc EXCEPT ![m] =
            IF b.state = OPEN /\ b2.state = HALF_OPEN THEN 0 ELSE @]
    /\ UNCHANGED consecFail

HistSuccess(m, b) ==
    /\ hoSucc' = [hoSucc EXCEPT ![m] = IF b.state = HALF_OPEN THEN @ + 1 ELSE @]
    /\ consecFail' = [consecFail EXCEPT ![m] = 0]

HistFailure(m) ==
    /\ consecFail' = [consecFail EXCEPT ![m] = @ + 1]
    /\ UNCHANGED hoSucc

(***************************************************************************)
(* Concurrent callers of one breaker's call_with_protection.               *)
(***************************************************************************)
CBGuardReject(c) ==
    /\ cbpc[c] = "idle"
    /\ guard_rejects(cb[CBModel], now)
    /\ cbOut' = [cbOut EXCEPT ![c] = "unavailable"]
    /\ ev' = [op |-> "guard", who |-> c, model |-> CBModel]
    /\ UNCHANGED <<now, cb, cbpc, consecFail, hoSucc, rlVars, vcVars, rq, auxVars>>

CBGuardPass(c) ==
    /\ cbpc[c] = "idle"
    /\ ~guard_rejects(cb[CBModel], now)
    /\ cb' = [cb EXCEPT ![CBModel] = guard_pass(@, now)]
    /\ cbpc' = [cbpc EXCEPT ![c] = "in_call"]
    /\ cbOut' = [cbOut EXCEPT ![c] = "none"]
    /\ HistGuard(CBModel, cb[CBModel], cb'[CBModel])
    /\ ev' = [op |-> "guard", who |-> c, model |-> CBModel]
    /\ UNCHANGED <<now, rlVars, vcVars, rq, auxVars>>

CBCallReturns(c) ==
    /\ cbpc[c] = "in_call"
    /\ cb' = [cb EXCEPT ![CBModel] = on_success(@)]
    /\ cbpc' = [cbpc EXCEPT ![c] = "idle"]
    /\ cbOut' = [cbOut EXCEPT ![c] = "result"]
    /\ HistSuccess(CBModel, cb[CBModel])
    /\ ev' = [op |-> "success", who |-> c, model |-> CBModel]
    /\ UNCHANGED <<now, rlVars, vcVars, rq, auxVars>>

CBCallRaises(c) ==
    /\ cbpc[c] = "in_call"
    /\ cb' = [cb EXCEPT ![CBModel] = on_failure(@, now)]
    /\ cbpc' = [cbpc EXCEPT ![c] = "idle"]
    /\ cbOut' = [cbOut EXCEPT ![c] = "error"]
    /\ HistFailure(CBModel)
    /\ ev' = [op |-> "failure", who |-> c, model |-> CBModel]
    /\ UNCHANGED <<now, rlVars, vcVars, rq, auxVars>>

Tick ==
    /\ now < MaxTime
    /\ now' = now + 1
    /\ ev' = [op |-> "tick", who |-> "clock", model |-> "none"]

CBTick ==
    /\ Tick
    /\ UNCHANGED <<cbVars, rlVars, vcVars, rq, auxVars>>

\* RateLimiter.__init__
InitLimiter ==
    /\ request_timestamps = <<>>
    /\ hourly_costs = [h \in Hours |-> 0]
    /\ recentAdmits = <<>>
    /\ billed = [h \in Hours |-> 0]

\* CorrectionVersionControl.__init__
InitStore ==
    /\ correction_history = <<>>
    /\ field_snapshots = <<>>
    /\ wrote = <<>>

(***************************************************************************)
(* CorrectionBatchProcessor (correction-workflow-analysis.md).  The        *)
(* confidence of a prediction is counted in hundredths.  The document      *)
(* gives processCorrection and calculatePriority; what processImmediately, *)
(* addToBatch, processBatchIfReady, addToLearningQueue and the flush timer *)
(* do is taken from the specification of the router: every correction is   *)
(* written to the version store when it is processed, a batch is flushed   *)
(* when it holds maxBatchSize corrections or has waited maxWaitTime.       *)
(* A call of processCorrection is described by a record b: the queues, the *)
(* timer (TimerOff, or the ticks the batch has waited), the corrections    *)
(* written to the store (written) and the batch flushed (flushed).         *)
(***************************************************************************)
\* intelligentBatching, instantiated small; maxWaitTime in ticks
maxBatchSize == 3
maxWaitTime == 2

immediate_ceiling == 50
batch_ceiling == 80
CRITICAL_ERROR == "critical_error"
\* no batch is waiting
TimerOff == -1

NewBatchProcessor ==
    [batchQueue |-> <<>>, learningQueue |-> <<>>, timer |-> TimerOff]

\* faulty variant: the reason is not looked at, as in bufferCorrection
calculatePriority_ignores_reason(confidence, reason) ==
    IF confidence < immediate_ceiling THEN "immediate"
    ELSE IF confidence < batch_ceiling THEN "batch"
    ELSE "learning"

calculatePriority(confidence, reason) ==
    IF confidence < immediate_ceiling \/ reason = CRITICAL_ERROR THEN "immediate"
    ELSE IF confidence < batch_ceiling THEN "batch"
    ELSE "learning"

processImmediately(b, c) ==
    [b EXCEPT !.written = Append(@, c)]

addToBatch(b, c) ==
    [b EXCEPT !.written = Append(@, c),
              !.batchQueue = Append(@, c),
              !.timer = IF b.batchQueue = <<>> THEN 0 ELSE @]

flush(b) ==
    [b EXCEPT !.flushed = b.batchQueue, !.batchQueue = <<>>, !.timer = TimerOff]

processBatchIfReady(b) ==
    IF Len(b.batchQueue) >= maxBatchSize THEN flush(b) ELSE b

addToLearningQueue(b, c) ==
    [b EXCEPT !.written = Append(@, c), !.learningQueue = Append(@, c)]

\* faulty variant: the learning case does nothing
processCorrection_drops_learning(b, c, priority) ==
    CASE priority = "immediate" -> processImmediately(b, c)
      [] priority = "batch" -> processBatchIfReady(addToBatch(b, c))
      [] priority = "learning" -> b

\* faulty variant: the batch case does not look whether the batch is ready
processCorrection_never_ready(b, c, priority) ==
    CASE priority = "immediate" -> processImmediately(b, c)
      [] priority = "batch" -> addToBatch(b, c)
      [] priority = "learning" -> addToLearningQueue(b, c)

\* the switch of processCorrection
processCorrection(b, c, priority) ==
    CASE priority = "immediate" -> processImmediately(b, c)
      [] priority = "batch" -> processBatchIfReady(addToBatch(b, c))
      [] priority = "learning" -> addToLearningQueue(b, c)

(***************************************************************************)
(* CorrectionConflictResolver.  A correction of a conflict carries the     *)
(* user who made it, its timestamp and the confidence of the prediction it *)
(* corrects (in hundredths).                                               *)
(***************************************************************************)
MaxConflicts == 3
MaxStamp == 3
Users == {"u1", "u2"}
ConflictingCorrections ==
    [userId : Users, timestamp : 1 .. MaxStamp, confidenceScore : {50, 90}]
None == [userId |-> "none"]

\* max(corrections, key=...): the first of the corrections with the greatest
\* key, keys[i] being the key of corrections[i]
max_by(corrections, keys) ==
    corrections[CHOOSE i \in 1 .. Len(corrections) :
                    /\ \A j \in 1 .. Len(corrections) : keys[j] <= keys[i]
                    /\ \A j \in 1 .. i - 1 : keys[j] < keys[i]]

\* faulty variant: the correction that comes last in the list wins
_resolve_by_position(corrections) ==
    corrections[Len(corrections)]

_resolve_by_timestamp(corrections) ==
    max_by(corrections, [i \in 1 .. Len(corrections) |-> corrections[i].timestamp])

_resolve_by_confidence(corrections) ==
    max_by(corrections,
           [i \in 1 .. Len(corrections) |-> corrections[i].confidenceScore])

\* "manual": self._require_manual_resolution.  The document does not give
\* the method; by the specification of the resolver it names no winner and
\* hands the whole conflict to a human decision (ConflictUnresolved).
ConflictUnresolved(corrections) ==
    [userId |-> "unresolved", conflict |-> corrections]

_require_manual_resolution(corrections) ==
    ConflictUnresolved(corrections)

\* the strategies of resolution_strategies whose behaviour is known, and a
\* name that is not a key of it
Strategies == {"timestamp", "confidence", "manual", "latest"}

\* faulty variant: the strategy is not looked up, the default resolver runs
resolve_conflicting_corrections_ignores_strategy(corrections, strategy) ==
    IF Len(corrections) <= 1
    THEN IF corrections # <<>> THEN corrections[1] ELSE None
    ELSE _resolve_by_timestamp(corrections)

resolve_conflicting_corrections(corrections, strategy) ==
    IF Len(corrections) <= 1
    THEN IF corrections # <<>> THEN corrections[1] ELSE None
    ELSE CASE strategy = "confidence" -> _resolve_by_confidence(corrections)
           [] strategy = "manual" -> _require_manual_resolution(corrections)
           [] OTHER -> _resolve_by_timestamp(corrections)

NoResolution == [state |-> "none"]

(***************************************************************************)
(* CorrectionValidator.  A string is a sequence of characters.  A warning  *)
(* is a sequence of pieces of text, and "CRITICAL:" in w looks for the     *)
(* piece "CRITICAL:".  The helpers the document does not define            *)
(* (_is_valid_email ..., _check_date_consistency, _check_party_consistency,*)
(* _validate_against_patterns, _validate_confidence_change) are inputs:    *)
(* what they return is chosen by the caller of the model.                  *)
(***************************************************************************)
MaxValueLen == 2
Chars == {" ", "a"}
Strings == UNION {[1 .. n -> Chars] : n \in 0 .. MaxValueLen}

FieldTypes == {"text", "email", "date", "party", "signature"}
\* the types _validate_field_type has a format check for
FormattedTypes == {"email", "phone", "date", "amount"}

RECURSIVE lstrip(_)
lstrip(v) == IF v # <<>> /\ v[1] = " " THEN lstrip(Tail(v)) ELSE v
RECURSIVE rstrip(_)
rstrip(v) ==
    IF v # <<>> /\ v[Len(v)] = " " THEN rstrip(SubSeq(v, 1, Len(v) - 1)) ELSE v
\* str.strip()
strip(v) == rstrip(lstrip(v))

\* fieldName.lower(), piece by piece
lower(name) ==
    [i \in 1 .. Len(name) |-> IF name[i] = "Party" THEN "party" ELSE name[i]]
FieldNames ==
    {<<"effective_date">>, <<"Party", "_name">>, <<"notes">>}

TypeMismatch(type) ==
    <<"Correction value doesn't match expected field type: ", type>>
EmptyRequired(type) ==
    <<"CRITICAL:", " ", type, " field cannot be empty in legal documents">>
SignatureIncomplete == <<"Signature field appears incomplete">>
\* what an undefined helper may return: nothing, a warning, or a warning
\* with "CRITICAL:" somewhere in it
HelperWarnings ==
    {<<>>, <<<<"inconsistent with the document">>>>,
     <<<<"party mismatch: ", "CRITICAL:", " unknown party">>>>}

\* "CRITICAL:" in w
is_critical(w) == \E i \in 1 .. Len(w) : w[i] = "CRITICAL:"

_validate_field_type(type, format_ok) ==
    IF type \in FormattedTypes THEN format_ok ELSE TRUE

_validate_context_consistency(fieldName, context, date_warnings, party_warnings) ==
    IF ~context THEN <<>>
    ELSE (IF lower(fieldName) \in {<<"effective_date">>, <<"start_date">>, <<"end_date">>}
          THEN date_warnings ELSE <<>>)
         \o (IF \E i \in 1 .. Len(fieldName) : lower(fieldName)[i] = "party"
             THEN party_warnings ELSE <<>>)

_validate_legal_requirements(type, correctedValue) ==
    (IF type \in {"party", "date"} /\ strip(correctedValue) = <<>>
     THEN <<EmptyRequired(type)>> ELSE <<>>)
    \o (IF type = "signature" /\ Len(correctedValue) < 2
        THEN <<SignatureIncomplete>> ELSE <<>>)

\* faulty variant: any warning makes the correction invalid
is_valid_without_warnings(warnings) == warnings = <<>>

\* len([w for w in warnings if "CRITICAL:" in w]) == 0
is_valid(warnings) ==
    SelectSeq(warnings, is_critical) = <<>>

\* validate_correction: the pair it returns
validate_correction(a) ==
    LET warnings ==
            (IF ~_validate_field_type(a.type, a.format_ok)
             THEN <<TypeMismatch(a.type)>> ELSE <<>>)
            \o _validate_context_consistency(a.fieldName, a.context,
                   a.date_warnings, a.party_warnings)
            \o _validate_legal_requirements(a.type, a.correctedValue)
            \o a.pattern_warnings
            \o a.confidence_warnings
    IN  [is_valid |-> is_valid(warnings), warnings |-> warnings]

(***************************************************************************)
(* validateUserCorrection of the frontend (PreviewSummary.tsx).            *)
(***************************************************************************)
CorrectionReasons ==
    {"incorrect_value", "incomplete_value", "formatting_error", "wrong_field",
     "duplicate_entry", "other"}

INVALID_REASON ==
    [field |-> "correctionReason", code |-> "INVALID_REASON", severity |-> "error"]
NO_CHANGE ==
    [field |-> "correctedValue", code |-> "NO_CHANGE", severity |-> "error"]

\* faulty variant: the comparison with the predicted value is left out
validateUserCorrection_allows_no_change(a) ==
    LET errors == IF a.correctionReason \notin CorrectionReasons
                  THEN <<INVALID_REASON>> ELSE <<>>
    IN  [isValid |-> errors = <<>>,
         data |-> IF errors = <<>> THEN "correction" ELSE "undefined",
         errors |-> errors, warnings |-> <<>>]

validateUserCorrection(a) ==
    LET errors ==
            (IF a.correctionReason \notin CorrectionReasons
             THEN <<INVALID_REASON>> ELSE <<>>)
            \o (IF a.correctedValue = a.predictedValue
                THEN <<NO_CHANGE>> ELSE <<>>)
    IN  [isValid |-> Len(errors) = 0,
         data |-> IF Len(errors) = 0 THEN "correction" ELSE "undefined",
         errors |-> errors, warnings |-> <<>>]

(***************************************************************************)
(* businessRules.contractDates (PreviewSummary.tsx).  A date argument is a *)
(* string; what matters of it is how new Date() reads it: not at all       *)
(* (Invalid Date, time NaN), or as a day, written either as a date or as   *)
(* the date-time of the day's midnight, which give the same time value.    *)
(***************************************************************************)
MaxDay == 3
NaN == -1
DateStrings ==
    {[form |-> "invalid", day |-> NaN]}
    \cup [form : {"date", "datetime"}, day : 1 .. MaxDay]

\* new Date(s).getTime()
getTime(s) == IF s.form = "invalid" THEN NaN ELSE s.day
isNaN(t) == t = NaN

INVALID_DATE_FORMAT ==
    [field |-> "dates", code |-> "INVALID_DATE_FORMAT", severity |-> "error"]
INVALID_DATE_RANGE ==
    [field |-> "dates", code |-> "INVALID_DATE_RANGE", severity |-> "error"]

\* faulty variant: the order of the two dates is not looked at
contractDates_any_order(startDate, endDate) ==
    LET errors == IF isNaN(getTime(startDate)) \/ isNaN(getTime(endDate))
                  THEN <<INVALID_DATE_FORMAT>> ELSE <<>>
    IN  [isValid |-> Len(errors) = 0, errors |-> errors, warnings |-> <<>>]

contractDates(startDate, endDate) ==
    LET start == getTime(startDate)
        end == getTime(endDate)
        errors == IF isNaN(start) \/ isNaN(end)
                  THEN <<INVALID_DATE_FORMAT>>
                  ELSE IF start >= end
                       THEN <<INVALID_DATE_RANGE>>
                       ELSE <<>>
    IN  [isValid |-> Len(errors) = 0, errors |-> errors, warnings |-> <<>>]

\* no validation is asked for
NoValidation == [by |-> "none", state |-> "none"]

(***************************************************************************)
(* useAutoSave (hooks/useAutoSave.ts).  A change is a ParsedField: the id  *)
(* of the field and its content, here the serial number of the call of     *)
(* addPendingChange that brought it.  autoSave holds the React state of    *)
(* the hook (pendingChanges, isSaving, lastSaved, error), whether a jobId  *)
(* is given, and for every saveChanges suspended in its await the          *)
(* pendingChanges its closure holds (inFlight).  History: sent, the        *)
(* changes passed to saveFieldUpdates so far, and changes, the number of   *)
(* calls of addPendingChange.  A handler runs in the latest render.        *)
(***************************************************************************)
MaxChanges == 3
MaxInFlight == 2
FieldIds == {"a", "b"}

NewAutoSave ==
    [jobId |-> TRUE, pendingChanges |-> <<>>, isSaving |-> FALSE,
     lastSaved |-> "null", error |-> "null",
     inFlight |-> <<>>, sent |-> {}, changes |-> 0]

Range(q) == {q[i] : i \in 1 .. Len(q)}

\* the list without its i-th entry
Without(q, i) == [j \in 1 .. Len(q) - 1 |-> IF j < i THEN q[j] ELSE q[j + 1]]

\* addPendingChange: the new pendingChanges
addPendingChange(pendingChanges, field) ==
    IF ~\E i \in 1 .. Len(pendingChanges) : pendingChanges[i].id = field.id
    THEN Append(pendingChanges, field)
    ELSE [i \in 1 .. Len(pendingChanges) |->
             IF pendingChanges[i].id = field.id THEN field
             ELSE pendingChanges[i]]

\* saveChanges up to its await: saveFieldUpdates(jobId, pendingChanges) is
\* called with the pendingChanges of the render the closure belongs to
save_called(h) ==
    [h EXCEPT !.isSaving = TRUE, !.error = "null",
              !.inFlight = Append(@, h.pendingChanges),
              !.sent = @ \cup Range(h.pendingChanges)]

\* saveChanges after the await when success is true: setLastSaved(now),
\* setPendingChanges([]), and setIsSaving(false) in the finally block
save_succeeded(h, i) ==
    [h EXCEPT !.lastSaved = "date", !.pendingChanges = <<>>,
              !.isSaving = FALSE, !.inFlight = Without(@, i)]

\* saveChanges after the await when success is false or the call threw
save_failed(h, i, message) ==
    [h EXCEPT !.error = message, !.isSaving = FALSE,
              !.inFlight = Without(@, i)]

\* AIErrorRecovery: no safe_predict_fields is running
NewSafePredict == [pc |-> "idle", out |-> "none", denied |-> FALSE, paid |-> 0]

InitAux ==
    /\ sp = [c \in Callers |-> NewSafePredict]
    /\ bp = NewBatchProcessor
    /\ autoSave = NewAutoSave

\* the state after construction of the breakers, the rate limiter, the
\* version control and the model chain
InitCore ==
    /\ now = 0
    /\ cb = [m \in Breakers |-> NewBreaker]
    /\ cbpc = [c \in Callers |-> "idle"]
    /\ cbOut = [c \in Callers |-> "none"]
    /\ ev = [op |-> "init", who |-> "none", model |-> "none"]
    /\ consecFail = [m \in Breakers |-> 0]
    /\ hoSucc = [m \in Breakers |-> 0]
    /\ InitLimiter
    /\ InitStore
    /\ rq = [r \in Requests |-> NewRequest]

\* the state after construction of every service
InitAll ==
    /\ InitCore
    /\ InitAux
    /\ val = NoValidation
    /\ cr = NoResolution

InitCB == InitAll

(***************************************************************************)
(* check_rate_limit, called by concurrent tasks.  Its body has no await:   *)
(* the check and the recording are one uninterrupted run.                  *)
(***************************************************************************)
RLRateDenied(c) ==
    LET cleaned == clean_old_timestamps(request_timestamps, now) IN
    /\ rate_limit_exceeded(cleaned)
    /\ request_timestamps' = cleaned
    /\ ev' = [op |-> "rate_denied", who |-> c, model |-> "ai_service"]
    /\ UNCHANGED <<now, cbVars, vcVars, rq, hourly_costs, recentAdmits, billed, auxVars>>

RLCostDenied(c) ==
    LET cleaned == clean_old_timestamps(request_timestamps, now) IN
    /\ ~rate_limit_exceeded(cleaned)
    /\ cost_limit_exceeded(hourly_costs, current_hour(now))
    /\ request_timestamps' = cleaned
    /\ ev' = [op |-> "cost_denied", who |-> c, model |-> "ai_service"]
    /\ UNCHANGED <<now, cbVars, vcVars, rq, hourly_costs, recentAdmits, billed, auxVars>>

RLAdmit(c) ==
    LET cleaned == clean_old_timestamps(request_timestamps, now)
        h == current_hour(now)
    IN
    /\ ~rate_limit_exceeded(cleaned)
    /\ ~cost_limit_exceeded(hourly_costs, h)
    /\ request_timestamps' = Append(cleaned, now)
    /\ hourly_costs' = [hourly_costs EXCEPT ![h] = @ + cost_per_request]
    /\ recentAdmits' = Append(recentAdmits, now)
    /\ billed' = [billed EXCEPT ![h] = @ + cost_per_request]
    /\ ev' = [op |-> "admit", who |-> c, model |-> "ai_service"]
    /\ UNCHANGED <<now, cbVars, vcVars, rq, auxVars>>

RLTick ==
    /\ Tick
    /\ recentAdmits' = SelectSeq(recentAdmits, LAMBDA x : x > now' - MinuteTicks)
    /\ UNCHANGED <<cbVars, vcVars, rq, request_timestamps, hourly_costs, billed, auxVars>>

InitRL == InitAll

NextRL ==
    \/ \E c \in Callers : RLRateDenied(c)
    \/ \E c \in Callers : RLCostDenied(c)
    \/ \E c \in Callers : RLAdmit(c)
    \/ RLTick

SpecRL == InitRL /\ [][NextRL]_vars

(***************************************************************************)
(* Saves and rollbacks issued by concurrent tasks.  Neither coroutine      *)
(* suspends: rollback_correction awaits only save_correction_version,      *)
(* which has no await of its own, so the tasks run one after the other in  *)
(* any order.  The caller of save_correction_version passes the field's    *)
(* present state as previous_state, as rollback_correction itself does:    *)
(* the value of the latest version, or the predicted value when the field  *)
(* has no version yet.                                                     *)
(***************************************************************************)
present_value(f, predicted) ==
    IF f \in DOMAIN field_snapshots /\ field_snapshots[f] # <<>>
    THEN Last(field_snapshots[f]).new_value
    ELSE predicted

Appended(f, version_id, value) ==
    [field |-> f, version_id |-> version_id, value |-> value]

\* the last two appends, the latest first
Remember(a) ==
    IF wrote = <<>> THEN <<a>> ELSE <<a, wrote[1]>>

VCSave(f, value, predicted) ==
    LET correction == [correctedValue |-> value,
                       correctionReason |-> USER_EDIT,
                       userId |-> "user"]
        r == save_correction_version(correction_history, field_snapshots, f,
                 correction, [value |-> present_value(f, predicted)])
    IN
    /\ TotalVersions < MaxVersions
    /\ predicted = present_value(f, predicted)
    /\ correction_history' = r.history
    /\ field_snapshots' = r.snapshots
    /\ wrote' = Remember(Appended(f, r.version_id, value))
    /\ ev' = [op |-> "save", field |-> f]
    /\ UNCHANGED <<now, cbVars, rlVars, rq, auxVars>>

VCRollback(f, target_version) ==
    /\ TotalVersions < MaxVersions
    /\ rollback_error(field_snapshots, f, target_version) = "none"
    /\ LET target_snapshot == rollback_target(field_snapshots, f, target_version)
           correction == rollback_correction_of(target_snapshot)
           r == save_correction_version(correction_history, field_snapshots, f,
                    correction, [value |-> Last(field_snapshots[f]).new_value])
       IN
       /\ correction_history' = r.history
       /\ field_snapshots' = r.snapshots
       /\ wrote' = Remember(Appended(f, r.version_id, correction.correctedValue))
       /\ ev' = [op |-> "rollback", field |-> f,
                 target_version |-> target_version,
                 rolled_back_to |-> target_snapshot.version_id,
                 rollback_version |-> r.version_id,
                 new_value |-> target_snapshot.previous_value]
    /\ UNCHANGED <<now, cbVars, rlVars, rq, auxVars>>

VCRollbackRaises(f, target_version) ==
    /\ rollback_error(field_snapshots, f, target_version) # "none"
    /\ ev' = [op |-> "rollback_error", field |-> f,
              target_version |-> target_version,
              error |-> rollback_error(field_snapshots, f, target_version)]
    /\ UNCHANGED <<now, cbVars, rlVars, vcVars, rq, auxVars>>

InitVC == InitAll

\* the target versions a rollback of field f is called with: None, the ids
\* the field's versions have, the id its next version would get, and the
\* first id of every other field
Targets(f) ==
    {NoVersion}
    \cup {<<f, n>> : n \in 0 .. Len(with_field(field_snapshots, f)[f])}
    \cup {<<g, 0>> : g \in Fields \ {f}}

NextVC ==
    \/ \E f \in Fields, v \in Values, pv \in Values : VCSave(f, v, pv)
    \/ \E f \in Fields : \E t \in Targets(f) : VCRollback(f, t)
    \/ \E f \in Fields : \E t \in Targets(f) : VCRollbackRaises(f, t)

SpecVC == InitVC /\ [][NextVC]_vars

(***************************************************************************)
(* A predict_with_resilience request.  The breakers outlive a request: it  *)
(* finds each of them as earlier requests left it (StartBreakers, states   *)
(* SpecCB reaches).  The clock stands still during the request; recovery   *)
(* after recovery_timeout is there from the start for a breaker whose last *)
(* failure is old.                                                         *)
(***************************************************************************)
ChainGuardRejects(r) ==
    LET m == model_name(rq[r]) IN
    /\ rq[r].pc = "try"
    /\ protected(m)
    /\ guard_rejects(cb[m], now)
    /\ rq' = [rq EXCEPT ![r] = on_unavailable(Skipped(@))]
    /\ ev' = [op |-> "guard", who |-> r, model |-> m]
    /\ UNCHANGED <<now, cbVars, rlVars, vcVars, auxVars>>

ChainCallsModel(r) ==
    LET m == model_name(rq[r]) IN
    /\ rq[r].pc = "try"
    /\ protected(m)
    /\ ~guard_rejects(cb[m], now)
    /\ cb' = [cb EXCEPT ![m] = guard_pass(@, now)]
    /\ HistGuard(m, cb[m], cb'[m])
    /\ rq' = [rq EXCEPT ![r] =
                 [Before(Invoked(@), cb[m]) EXCEPT !.pc = "in_call"]]
    /\ ev' = [op |-> "guard", who |-> r, model |-> m]
    /\ UNCHANGED <<now, cbpc, cbOut, rlVars, vcVars, auxVars>>

ChainCallsFallback(r) ==
    /\ rq[r].pc = "try"
    /\ ~protected(model_name(rq[r]))
    /\ rq' = [rq EXCEPT ![r] = [Invoked(@) EXCEPT !.pc = "in_call"]]
    /\ ev' = [op |-> "call", who |-> r, model |-> REGEX_FALLBACK]
    /\ UNCHANGED <<now, cbVars, rlVars, vcVars, auxVars>>

ChainModelReturns(r, valid) ==
    LET m == model_name(rq[r]) IN
    /\ rq[r].pc = "in_call"
    /\ protected(m)
    /\ cb' = [cb EXCEPT ![m] = on_success(@)]
    /\ HistSuccess(m, cb[m])
    /\ rq' = [rq EXCEPT ![r] = on_result(@, valid)]
    /\ ev' = [op |-> "success", who |-> r, model |-> m]
    /\ UNCHANGED <<now, cbpc, cbOut, rlVars, vcVars, auxVars>>

ChainModelRaises(r) ==
    LET m == model_name(rq[r]) IN
    /\ rq[r].pc = "in_call"
    /\ protected(m)
    /\ cb' = [cb EXCEPT ![m] = on_failure(@, now)]
    /\ HistFailure(m)
    /\ rq' = [rq EXCEPT ![r] = on_exception(@, "failed")]
    /\ ev' = [op |-> "failure", who |-> r, model |-> m]
    /\ UNCHANGED <<now, cbpc, cbOut, rlVars, vcVars, auxVars>>

\* the always-available regex prediction returns a result, plausible or not
ChainFallbackReturns(r, valid) ==
    /\ rq[r].pc = "in_call"
    /\ ~protected(model_name(rq[r]))
    /\ rq' = [rq EXCEPT ![r] = on_result(@, valid)]
    /\ ev' = [op |-> "result", who |-> r, model |-> REGEX_FALLBACK]
    /\ UNCHANGED <<now, cbVars, rlVars, vcVars, auxVars>>

\* the regex prediction raises: the handler of predict_with_resilience
\* takes the exception, no breaker hears of it
ChainFallbackRaises(r) ==
    /\ rq[r].pc = "in_call"
    /\ ~protected(model_name(rq[r]))
    /\ rq' = [rq EXCEPT ![r] = on_exception(@, "failed")]
    /\ ev' = [op |-> "raise", who |-> r, model |-> REGEX_FALLBACK]
    /\ UNCHANGED <<now, cbVars, rlVars, vcVars, auxVars>>

ChainWakes(r) ==
    /\ rq[r].pc = "sleeping"
    /\ rq' = [rq EXCEPT ![r].pc = "try", ![r].attempt = @ + 1]
    /\ ev' = [op |-> "wake", who |-> r, model |-> model_name(rq[r])]
    /\ UNCHANGED <<now, cbVars, rlVars, vcVars, auxVars>>

\* The caller cancels the task of the request while it is suspended in a
\* prediction or in asyncio.sleep: CancelledError is raised at the await.
\* call_with_protection catches Exception only, so neither _on_success nor
\* _on_failure runs.
ChainCancelled(r) ==
    /\ rq[r].pc \in {"in_call", "sleeping"}
    /\ rq' = [rq EXCEPT ![r] = on_cancelled(@)]
    /\ ev' = [op |-> "cancel", who |-> r, model |-> model_name(rq[r])]
    /\ UNCHANGED <<now, cbVars, rlVars, vcVars, auxVars>>

\* the time the request arrives: late enough for a failure at 0 to be old
ChainStart == recovery_timeout + 1

StartBreakers ==
    { NewBreaker,
      \* CLOSED, one failure short of opening
      [state |-> CLOSED, failure_count |-> failure_threshold - 1,
       success_count |-> 0, last_failure_time |-> ChainStart],
      \* OPEN, the last failure just now
      [state |-> OPEN, failure_count |-> failure_threshold,
       success_count |-> 0, last_failure_time |-> ChainStart],
      \* OPEN, the last failure more than recovery_timeout ago
      [state |-> OPEN, failure_count |-> failure_threshold,
       success_count |-> 0, last_failure_time |-> 0],
      \* HALF_OPEN, one success short of closing
      [state |-> HALF_OPEN, failure_count |-> failure_threshold,
       success_count |-> success_threshold - 1, last_failure_time |-> 0] }

InitChain ==
    /\ now = ChainStart
    /\ \E start \in [Models -> StartBreakers] :
           cb = start @@ (REGEX_FALLBACK :> NewBreaker)
    /\ consecFail = [m \in Breakers |->
           IF cb[m].state = HALF_OPEN THEN 0 ELSE cb[m].failure_count]
    /\ hoSucc = [m \in Breakers |-> cb[m].success_count]
    /\ cbpc = [c \in Callers |-> "idle"]
    /\ cbOut = [c \in Callers |-> "none"]
    /\ ev = [op |-> "init", who |-> "none", model |-> "none"]
    /\ InitLimiter
    /\ InitStore
    /\ rq = [r \in Requests |-> NewRequest]
    /\ InitAux
    /\ val = NoValidation
    /\ cr = NoResolution

NextChain ==
    \/ \E r \in Requests : ChainGuardRejects(r)
    \/ \E r \in Requests : ChainCallsModel(r)
    \/ \E r \in Requests : ChainCallsFallback(r)
    \/ \E r \in Requests, valid \in BOOLEAN : ChainModelReturns(r, valid)
    \/ \E r \in Requests : ChainModelRaises(r)
    \/ \E r \in Requests, valid \in BOOLEAN : ChainFallbackReturns(r, valid)
    \/ \E r \in Requests : ChainFallbackRaises(r)
    \/ \E r \in Requests : ChainWakes(r)
    \/ \E r \in Requests : ChainCancelled(r)

SpecChain == InitChain /\ [][NextChain]_vars

NextCB ==
    \/ \E c \in Callers : CBGuardReject(c)
    \/ \E c \in Callers : CBGuardPass(c)
    \/ \E c \in Callers : CBCallReturns(c)
    \/ \E c \in Callers : CBCallRaises(c)
    \/ CBTick

SpecCB == InitCB /\ [][NextCB]_vars

(***************************************************************************)
(* AIErrorRecovery.safe_predict_fields, called by concurrent tasks.  sp[c] *)
(* holds where the call of c stands:                                       *)
(*   "idle"        not in a call (out tells how the last one ended)        *)
(*   "in_call"     suspended in the await of predict_fields                *)
(*   "regex_only"  suspended in the await of predict_fields_regex_only     *)
(*   "manual_mode" suspended in the await of predict_fields_manual_mode    *)
(* and two history fields: denied, the rate limiter raised in this call,   *)
(* and paid, the number of times predict_fields was entered in this call.  *)
(* check_rate_limit has no await of its own, so a call runs without        *)
(* interruption from its start into the first of these awaits.  The        *)
(* breaker of AIErrorRecovery is cb[CBModel].                              *)
(***************************************************************************)
\* faulty variant: the limiter's exception leaves safe_predict_fields
on_denied_propagates(q, e) ==
    [q EXCEPT !.pc = "idle", !.out = e, !.denied = TRUE]

\* "except (RateLimitExceededError, CostLimitExceededError)": the regex-only
\* prediction is awaited
on_denied(q, e) ==
    [q EXCEPT !.pc = "regex_only", !.denied = TRUE]

SPRateDenied(c) ==
    LET cleaned == clean_old_timestamps(request_timestamps, now) IN
    /\ sp[c].pc = "idle"
    /\ rate_limit_exceeded(cleaned)
    /\ request_timestamps' = cleaned
    /\ sp' = [sp EXCEPT ![c] = on_denied(NewSafePredict, "rate_limit_exceeded")]
    /\ ev' = [op |-> "rate_denied", who |-> c, model |-> "ai_service"]
    /\ UNCHANGED <<now, cbVars, vcVars, rq, autoSave, hourly_costs, recentAdmits, billed, val, bp, cr>>

SPCostDenied(c) ==
    LET cleaned == clean_old_timestamps(request_timestamps, now) IN
    /\ sp[c].pc = "idle"
    /\ ~rate_limit_exceeded(cleaned)
    /\ cost_limit_exceeded(hourly_costs, current_hour(now))
    /\ request_timestamps' = cleaned
    /\ sp' = [sp EXCEPT ![c] = on_denied(NewSafePredict, "cost_limit_exceeded")]
    /\ ev' = [op |-> "cost_denied", who |-> c, model |-> "ai_service"]
    /\ UNCHANGED <<now, cbVars, vcVars, rq, autoSave, hourly_costs, recentAdmits, billed, val, bp, cr>>

\* check_rate_limit returned True: the request is recorded
SPRecord ==
    LET cleaned == clean_old_timestamps(request_timestamps, now)
        h == current_hour(now)
    IN
    /\ ~rate_limit_exceeded(cleaned)
    /\ ~cost_limit_exceeded(hourly_costs, h)
    /\ request_timestamps' = Append(cleaned, now)
    /\ hourly_costs' = [hourly_costs EXCEPT ![h] = @ + cost_per_request]
    /\ recentAdmits' = Append(recentAdmits, now)
    /\ billed' = [billed EXCEPT ![h] = @ + cost_per_request]

\* admitted, and the breaker lets the call of predict_fields through
SPAdmitCall(c) ==
    /\ sp[c].pc = "idle"
    /\ SPRecord
    /\ ~guard_rejects(cb[CBModel], now)
    /\ cb' = [cb EXCEPT ![CBModel] = guard_pass(@, now)]
    /\ HistGuard(CBModel, cb[CBModel], cb'[CBModel])
    /\ sp' = [sp EXCEPT ![c] = [NewSafePredict EXCEPT !.pc = "in_call", !.paid = 1]]
    /\ ev' = [op |-> "admit", who |-> c, model |-> "ai_service"]
    /\ UNCHANGED <<now, cbpc, cbOut, vcVars, rq, autoSave, val, bp, cr>>

\* admitted, and the breaker raises: "except AIServiceUnavailableError"
SPAdmitUnavailable(c) ==
    /\ sp[c].pc = "idle"
    /\ SPRecord
    /\ guard_rejects(cb[CBModel], now)
    /\ sp' = [sp EXCEPT ![c] = [NewSafePredict EXCEPT !.pc = "manual_mode"]]
    /\ ev' = [op |-> "admit", who |-> c, model |-> "ai_service"]
    /\ UNCHANGED <<now, cbVars, vcVars, rq, autoSave, val, bp, cr>>

SPCallReturns(c) ==
    /\ sp[c].pc = "in_call"
    /\ cb' = [cb EXCEPT ![CBModel] = on_success(@)]
    /\ HistSuccess(CBModel, cb[CBModel])
    /\ sp' = [sp EXCEPT ![c].pc = "idle", ![c].out = "prediction"]
    /\ ev' = [op |-> "success", who |-> c, model |-> CBModel]
    /\ UNCHANGED <<now, cbpc, cbOut, rlVars, vcVars, rq, autoSave, val, bp, cr>>

\* predict_fields raised: call_with_protection raises it again and no except
\* clause of safe_predict_fields takes it
SPCallRaises(c) ==
    /\ sp[c].pc = "in_call"
    /\ cb' = [cb EXCEPT ![CBModel] = on_failure(@, now)]
    /\ HistFailure(CBModel)
    /\ sp' = [sp EXCEPT ![c].pc = "idle", ![c].out = "error"]
    /\ ev' = [op |-> "failure", who |-> c, model |-> CBModel]
    /\ UNCHANGED <<now, cbpc, cbOut, rlVars, vcVars, rq, autoSave, val, bp, cr>>

\* the regex-only prediction needs no service: it returns its result
SPRegexOnlyReturns(c) ==
    /\ sp[c].pc = "regex_only"
    /\ sp' = [sp EXCEPT ![c].pc = "idle", ![c].out = "regex_only"]
    /\ ev' = [op |-> "result", who |-> c, model |-> REGEX_FALLBACK]
    /\ UNCHANGED <<now, cbVars, rlVars, vcVars, rq, autoSave, val, bp, cr>>

SPManualModeReturns(c) ==
    /\ sp[c].pc = "manual_mode"
    /\ sp' = [sp EXCEPT ![c].pc = "idle", ![c].out = "manual_mode"]
    /\ ev' = [op |-> "result", who |-> c, model |-> "manual_mode"]
    /\ UNCHANGED <<now, cbVars, rlVars, vcVars, rq, autoSave, val, bp, cr>>

SPTick ==
    /\ Tick
    /\ recentAdmits' = SelectSeq(recentAdmits, LAMBDA x : x > now' - MinuteTicks)
    /\ UNCHANGED <<cbVars, vcVars, rq, autoSave, request_timestamps, hourly_costs, billed, sp, val, bp, cr>>

InitSafe == InitAll

NextSafe ==
    \/ \E c \in Callers : SPRateDenied(c)
    \/ \E c \in Callers : SPCostDenied(c)
    \/ \E c \in Callers : SPAdmitCall(c)
    \/ \E c \in Callers : SPAdmitUnavailable(c)
    \/ \E c \in Callers : SPCallReturns(c)
    \/ \E c \in Callers : SPCallRaises(c)
    \/ \E c \in Callers : SPRegexOnlyReturns(c)
    \/ \E c \in Callers : SPManualModeReturns(c)
    \/ SPTick

SpecSafe == InitSafe /\ [][NextSafe]_vars

(***************************************************************************)
(* Validations of corrections: every call is one step, with its arguments  *)
(* drawn from ValidationArgs.                                              *)
(***************************************************************************)
ValidateCorrection ==
    /\ val.by = "validate_correction"
    /\ val.state = "called"
    /\ val' = [val EXCEPT !.state = "returned",
                          !.result = validate_correction(val.args)]
    /\ ev' = [op |-> "validate"]
    /\ UNCHANGED <<now, cbVars, rlVars, vcVars, rq, autoSave, sp, bp, cr>>

ValidationArgs ==
    [type : FieldTypes, correctedValue : Strings, format_ok : BOOLEAN,
     fieldName : FieldNames, context : BOOLEAN,
     date_warnings : HelperWarnings, party_warnings : HelperWarnings,
     pattern_warnings : HelperWarnings, confidence_warnings : HelperWarnings]

ValidateUserCorrection ==
    /\ val.by = "validateUserCorrection"
    /\ val.state = "called"
    /\ val' = [val EXCEPT !.state = "returned",
                          !.result = validateUserCorrection(val.args)]
    /\ ev' = [op |-> "validate"]
    /\ UNCHANGED <<now, cbVars, rlVars, vcVars, rq, autoSave, sp, bp, cr>>

\* the reasons a caller may pass: those of CorrectionReason and one that is not
UserCorrectionArgs ==
    [correctionReason : {"incorrect_value", "other", "critical_error"},
     correctedValue : Strings, predictedValue : Strings]

ContractDates ==
    /\ val.by = "contractDates"
    /\ val.state = "called"
    /\ val' = [val EXCEPT !.state = "returned",
                          !.result = contractDates(val.args.startDate,
                                                   val.args.endDate)]
    /\ ev' = [op |-> "validate"]
    /\ UNCHANGED <<now, cbVars, rlVars, vcVars, rq, autoSave, sp, bp, cr>>

ContractDatesArgs == [startDate : DateStrings, endDate : DateStrings]

\* a call of a validator, with its arguments, before it runs
Calls ==
    {[by |-> "validate_correction", state |-> "called", args |-> a,
      result |-> "none"] : a \in ValidationArgs}
    \cup {[by |-> "validateUserCorrection", state |-> "called", args |-> a,
           result |-> "none"] : a \in UserCorrectionArgs}
    \cup {[by |-> "contractDates", state |-> "called", args |-> a,
           result |-> "none"] : a \in ContractDatesArgs}

InitVal ==
    /\ InitCore
    /\ InitAux
    /\ val \in Calls
    /\ cr = NoResolution

NextVal ==
    \/ ValidateCorrection
    \/ ValidateUserCorrection
    \/ ContractDates

SpecVal == InitVal /\ [][NextVal]_vars

(***************************************************************************)
(* Corrections handed to processCorrection, and the flush timer.           *)
(***************************************************************************)
Confidences == {49, 50, 79, 80, 95}
Reasons == {"incorrect_value", CRITICAL_ERROR}

\* the corrections of a call written to the version store, in order
RECURSIVE WriteAll(_, _, _)
WriteAll(history, snapshots, cs) ==
    IF cs = <<>> THEN [history |-> history, snapshots |-> snapshots]
    ELSE LET c == Head(cs)
             r == save_correction_version(history, snapshots, c.field,
                      [correctedValue |-> c.value, correctionReason |-> USER_EDIT,
                       userId |-> "user"],
                      [value |-> c.predicted])
         IN  WriteAll(r.history, r.snapshots, Tail(cs))

BPProcessCorrection(f, value, confidence, reason) ==
    LET c == [field |-> f, value |-> value, predicted |-> present_value(f, "A")]
        priority == calculatePriority(confidence, reason)
        b == processCorrection(
                 [batchQueue |-> bp.batchQueue, learningQueue |-> bp.learningQueue,
                  timer |-> bp.timer, written |-> <<>>, flushed |-> <<>>],
                 c, priority)
        w == WriteAll(correction_history, field_snapshots, b.written)
    IN
    /\ TotalVersions < MaxVersions
    /\ bp' = [batchQueue |-> b.batchQueue, learningQueue |-> b.learningQueue,
              timer |-> b.timer]
    /\ correction_history' = w.history
    /\ field_snapshots' = w.snapshots
    /\ ev' = [op |-> "process", field |-> f, value |-> value,
              confidence |-> confidence, reason |-> reason,
              priority |-> priority, flushed |-> Len(b.flushed)]
    /\ UNCHANGED <<now, cbVars, rlVars, wrote, rq, autoSave, sp, val, cr>>

\* the batch has waited maxWaitTime: it is flushed
BPTimerFires ==
    /\ bp.timer = maxWaitTime
    /\ bp' = [bp EXCEPT !.batchQueue = <<>>, !.timer = TimerOff]
    /\ ev' = [op |-> "timer", flushed |-> Len(bp.batchQueue)]
    /\ UNCHANGED <<now, cbVars, rlVars, vcVars, rq, autoSave, sp, val, cr>>

\* a tick passes while a batch waits
BPTick ==
    /\ bp.timer # TimerOff
    /\ bp.timer # maxWaitTime
    /\ bp' = [bp EXCEPT !.timer = @ + 1]
    /\ ev' = [op |-> "tick"]
    /\ UNCHANGED <<now, cbVars, rlVars, vcVars, rq, autoSave, sp, val, cr>>

InitBP == InitAll

NextBP ==
    \/ \E f \in {"f1"}, v \in Values, conf \in Confidences, reason \in Reasons :
           BPProcessCorrection(f, v, conf, reason)
    \/ BPTimerFires
    \/ BPTick

SpecBP == InitBP /\ [][NextBP]_vars

(***************************************************************************)
(* Calls of the conflict resolver: the conflict and the strategy are drawn *)
(* when the call is made, and the call is one step.                        *)
(***************************************************************************)
Conflicts ==
    UNION {[1 .. n -> ConflictingCorrections] : n \in 0 .. MaxConflicts}

CRResolve ==
    /\ cr.state = "called"
    /\ cr' = [cr EXCEPT !.state = "returned",
                        !.result = resolve_conflicting_corrections(
                                       cr.corrections, cr.strategy)]
    /\ ev' = [op |-> "resolve"]
    /\ UNCHANGED <<now, cbVars, rlVars, vcVars, rq, autoSave, sp, val, bp>>

\* the value each user proposes for the field in conflict
proposed == [u \in Users |-> IF u = "u1" THEN "A" ELSE "B"]

\* The router commits the winner of a resolved conflict to the version
\* store; a conflict without a winner is committed by nobody.
CRCommit ==
    /\ cr.state = "returned"
    /\ cr.result.userId \in Users
    /\ LET correction == [correctedValue |-> proposed[cr.result.userId],
                          correctionReason |-> USER_EDIT,
                          userId |-> cr.result.userId]
           r == save_correction_version(correction_history, field_snapshots,
                    "f1", correction, [value |-> present_value("f1", "A")])
       IN
       /\ correction_history' = r.history
       /\ field_snapshots' = r.snapshots
       /\ wrote' = Remember(Appended("f1", r.version_id,
                                     correction.correctedValue))
    /\ cr' = [cr EXCEPT !.state = "committed"]
    /\ ev' = [op |-> "commit"]
    /\ UNCHANGED <<now, cbVars, rlVars, rq, autoSave, sp, val, bp>>

InitCR ==
    /\ InitCore
    /\ InitAux
    /\ val = NoValidation
    /\ cr \in [state : {"called"}, corrections : Conflicts,
               strategy : Strategies, result : {None}]

NextCR ==
    \/ CRResolve
    \/ CRCommit

SpecCR == InitCR /\ [][NextCR]_vars

(***************************************************************************)
(* The hook in a mounted component: the user edits fields, the autosave    *)
(* timer or the component calls saveChanges, and the requests to the       *)
(* backend end in any order.                                               *)
(***************************************************************************)
ASAddPendingChange(id) ==
    /\ autoSave.changes < MaxChanges
    /\ autoSave' = [autoSave EXCEPT
           !.changes = @ + 1,
           !.pendingChanges = addPendingChange(@,
               [id |-> id, content |-> autoSave.changes + 1])]
    /\ ev' = [op |-> "add", field |-> id]
    /\ UNCHANGED <<now, cbVars, rlVars, vcVars, rq, sp, val, bp, cr>>

\* "if (!jobId || pendingChanges.length === 0) return null"
ASSaveCalled ==
    /\ autoSave.jobId
    /\ Len(autoSave.pendingChanges) > 0
    /\ Len(autoSave.inFlight) < MaxInFlight
    /\ autoSave' = save_called(autoSave)
    /\ ev' = [op |-> "save_called"]
    /\ UNCHANGED <<now, cbVars, rlVars, vcVars, rq, sp, val, bp, cr>>

ASSaveSucceeds(i) ==
    /\ i \in 1 .. Len(autoSave.inFlight)
    /\ autoSave' = save_succeeded(autoSave, i)
    /\ ev' = [op |-> "save_succeeded", request |-> autoSave.inFlight[i]]
    /\ UNCHANGED <<now, cbVars, rlVars, vcVars, rq, sp, val, bp, cr>>

ASSaveFails(i, message) ==
    /\ i \in 1 .. Len(autoSave.inFlight)
    /\ autoSave' = save_failed(autoSave, i, message)
    /\ ev' = [op |-> "save_failed", request |-> autoSave.inFlight[i]]
    /\ UNCHANGED <<now, cbVars, rlVars, vcVars, rq, sp, val, bp, cr>>

InitAS ==
    /\ InitCore
    /\ bp = NewBatchProcessor
    /\ sp = [c \in Callers |-> NewSafePredict]
    /\ val = NoValidation
    /\ cr = NoResolution
    /\ autoSave \in {[NewAutoSave EXCEPT !.jobId = j] : j \in BOOLEAN}

NextAS ==
    \/ \E id \in FieldIds : ASAddPendingChange(id)
    \/ ASSaveCalled
    \/ \E i \in 1 .. MaxInFlight : ASSaveSucceeds(i)
    \/ \E i \in 1 .. MaxInFlight :
           \E message \in {"Failed to save changes", "Error saving changes"} :
               ASSaveFails(i, message)

SpecAS == InitAS /\ [][NextAS]_vars

C2_Step ==
    \A m \in Models :
        \* the failure that completes failure_threshold consecutive ones opens
        /\ (consecFail'[m] > consecFail[m] /\ consecFail'[m] >= failure_threshold)
               => cb'[m].state = OPEN
        \* a CLOSED breaker opens on nothing less
        /\ (cb[m].state = CLOSED /\ cb'[m].state = OPEN)
               => consecFail'[m] >= failure_threshold
        \* a guard on an OPEN breaker within recovery_timeout of the last failure
        \* raises and leaves the caller outside the backend call
        /\ (/\ ev'.op = "guard" /\ ev'.model = m
            /\ cb[m].state = OPEN
            /\ now - cb[m].last_failure_time <= recovery_timeout)
               => /\ cbOut'[ev'.who] = "unavailable"
                  /\ cbpc' = cbpc
                  /\ cb' = cb

\* C2: failure_threshold consecutive failures (no success between them) leave
\* the breaker OPEN; every call_with_protection made while it is OPEN and
\* recovery_timeout has not elapsed since the last failure raises
\* AIServiceUnavailableError without invoking the backend; fewer consecutive
\* failures never open a CLOSED breaker.
C2_OpensAtThresholdAndRejects == [][C2_Step]_vars

C2_Witness ==
    /\ cb[CBModel].state = OPEN
    /\ consecFail[CBModel] >= failure_threshold
    /\ ev.op = "guard"
    /\ cbOut[ev.who] = "unavailable"

C9_Step ==
    \A m \in Models :
        /\ (cb[m].state = HALF_OPEN /\ cb'[m].state = CLOSED)
               => (ev'.op = "success" /\ hoSucc'[m] = success_threshold)
        /\ (cb[m].state # HALF_OPEN /\ cb'[m].state = HALF_OPEN)
               => cb'[m].success_count = 0
        /\ cb'[m].state = HALF_OPEN
               => (hoSucc'[m] < success_threshold /\ cb'[m].success_count = hoSucc'[m])

\* C9: a HALF_OPEN breaker becomes CLOSED exactly when success_threshold
\* successes have been recorded since it entered HALF_OPEN (it is never still
\* HALF_OPEN with that many, and never closes with fewer), and success_count
\* is zero whenever HALF_OPEN is entered.
C9_ClosesAtSuccessThreshold == [][C9_Step]_vars

C9_Witness ==
    /\ cb[CBModel].state = CLOSED
    /\ ev.op = "success"
    /\ hoSucc[CBModel] = success_threshold
    /\ cb[CBModel].success_count = success_threshold
    /\ consecFail[CBModel] = 0

C10_Step ==
    \A m \in Models :
        (ev'.op = "failure" /\ ev'.model = m /\ cb[m].state = HALF_OPEN)
            => cb'[m].state = OPEN

\* C10: a failure recorded while the breaker is HALF_OPEN moves it to OPEN,
\* whatever the number of successes counted in HALF_OPEN so far.
C10_HalfOpenFailureOpens == [][C10_Step]_vars

C10_Witness ==
    /\ cb[CBModel].state = OPEN
    /\ ev.op = "failure"
    /\ consecFail[CBModel] = 1
    /\ hoSucc[CBModel] = success_threshold - 1
    /\ cb[CBModel].success_count = success_threshold - 1

(***************************************************************************)
(* Claims about the rate limiter (SpecRL).                                 *)
(***************************************************************************)
RLCheckStep == ev'.op \in {"admit", "rate_denied", "cost_denied"}
RLDenied == ev'.op \in {"rate_denied", "cost_denied"}

\* C3: whatever the interleaving of the callers of check_rate_limit, the
\* admissions of any trailing minute number at most requests_per_minute and
\* the cost admitted into any hour bucket is at most max_hourly_cost.
C3_AdmissionsWithinLimits ==
    /\ Len(recentAdmits) <= requests_per_minute
    /\ \A h \in Hours : billed[h] <= max_hourly_cost

C3_Witness ==
    /\ Len(recentAdmits) = requests_per_minute
    /\ billed[current_hour(now)] = max_hourly_cost
    /\ ev.op = "admit"
    /\ recentAdmits[1] < now

C7_Step ==
    RLCheckStep =>
        \* the minute is full: denied
        /\ Len(recentAdmits) >= requests_per_minute => ev'.op = "rate_denied"
        \* the minute is not full and the cost cap does not bind: admitted
        /\ (/\ Len(recentAdmits) < requests_per_minute
            /\ billed[current_hour(now)] + cost_per_request <= max_hourly_cost)
               => ev'.op = "admit"
        \* a denial records nothing
        /\ RLDenied =>
               /\ Len(request_timestamps') <= Len(request_timestamps)
               /\ \A i \in 1 .. Len(request_timestamps') :
                      \E j \in 1 .. Len(request_timestamps) :
                          request_timestamps'[i] = request_timestamps[j]
               /\ hourly_costs' = hourly_costs

\* C7: within one minute the first requests_per_minute attempts are admitted
\* (the cost cap not binding) and every later attempt of that minute is denied;
\* a denied attempt records no timestamp and adds no cost.
C7_RateBoundaryExact == [][C7_Step]_vars

C7_Witness ==
    /\ ev.op = "rate_denied"
    /\ Len(request_timestamps) = requests_per_minute
    /\ Len(recentAdmits) = requests_per_minute
    /\ billed[current_hour(now)] + cost_per_request <= max_hourly_cost

C8_Step ==
    LET over == billed[current_hour(now)] + cost_per_request > max_hourly_cost IN
    /\ RLCheckStep =>
           /\ over => RLDenied
           /\ ev'.op # "rate_denied" => (ev'.op = "cost_denied" <=> over)
    /\ \A h \in Hours : hourly_costs'[h] <= max_hourly_cost

NamedTarget(snaps, target_version) ==
    IF target_version = NoVersion
    THEN snaps[Len(snaps) - 1]
    ELSE snaps[CHOOSE i \in 1 .. Len(snaps) : snaps[i].version_id = target_version]

RollbackStep == ev'.op = "rollback" /\ field_snapshots' # field_snapshots

C4_Step ==
    RollbackStep =>
        LET old == field_snapshots[ev'.field]
            new == field_snapshots'[ev'.field]
        IN  /\ Len(new) = Len(old) + 1
            /\ Last(new).new_value = NamedTarget(old, ev'.target_version).new_value
            /\ new[Len(old)] = Last(old)

\* C4: a successful rollback appends exactly one version, whose value is the
\* value of the target version (the one named by target_version, or the one
\* before the latest), and the version that was the latest is still there.
C4_RollbackAppendsTargetValue == [][C4_Step]_vars

IsPrefix(p, q) ==
    /\ Len(p) <= Len(q)
    /\ \A i \in 1 .. Len(p) : q[i] = p[i]

C5_Step ==
    /\ \A f \in DOMAIN field_snapshots :
           /\ f \in DOMAIN field_snapshots'
           /\ IsPrefix(field_snapshots[f], field_snapshots'[f])
           /\ IsPrefix(correction_history[f], correction_history'[f])
    /\ \A f \in DOMAIN field_snapshots' :
           \A i, j \in 1 .. Len(field_snapshots'[f]) :
               /\ field_snapshots'[f][i].version_id[1] = f
               /\ i < j => field_snapshots'[f][i].version_id[2]
                               < field_snapshots'[f][j].version_id[2]

\* C5: a save or a rollback only appends: every version of every field stays,
\* unchanged and in place, and the version ids of a field increase strictly
\* in append order (none is used twice).
C5_HistoryOnlyGrows == [][C5_Step]_vars

C5_Witness ==
    \E f \in DOMAIN field_snapshots :
        /\ Len(field_snapshots[f]) >= 3
        /\ field_snapshots[f][3].correction_reason = ROLLBACK
        /\ field_snapshots[f][2].correction_reason = USER_EDIT
        /\ ev.op = "rollback"

VersionAt(w) == field_snapshots[w.field][w.version_id[2] + 1]

\* C6: the appends of two tasks on one field are serialized: each of the last
\* two operations has its own version id, its version is in the history under
\* that id with the value it wrote, the later one directly follows the
\* earlier one, and the two lists of the field have the same length.
C6_AppendsSerialized ==
    /\ \A k \in 1 .. Len(wrote) :
           /\ wrote[k].field \in DOMAIN field_snapshots
           /\ wrote[k].version_id[2] + 1 <= Len(field_snapshots[wrote[k].field])
           /\ VersionAt(wrote[k]).version_id = wrote[k].version_id
           /\ VersionAt(wrote[k]).new_value = wrote[k].value
           /\ correction_history[wrote[k].field][wrote[k].version_id[2] + 1]
                  .correctedValue = wrote[k].value
    /\ Len(wrote) = 2 =>
           /\ wrote[1].version_id # wrote[2].version_id
           /\ wrote[1].field = wrote[2].field =>
                  /\ wrote[1].version_id[2] = wrote[2].version_id[2] + 1
                  /\ Len(field_snapshots[wrote[1].field]) = wrote[1].version_id[2] + 1
    /\ \A f \in DOMAIN field_snapshots :
           /\ f \in DOMAIN correction_history
           /\ Len(correction_history[f]) = Len(field_snapshots[f])

C6_Witness ==
    /\ Len(wrote) = 2
    /\ wrote[1].field = wrote[2].field
    /\ VersionAt(wrote[1]).correction_reason = USER_EDIT
    /\ VersionAt(wrote[2]).correction_reason = ROLLBACK

(***************************************************************************)
(* Claims about the order of the model chain (SpecChain).                  *)
(***************************************************************************)
C11_Step ==
    \A r \in Requests :
        LET q == rq[r] IN
        \* the step in which a breaker turned the request away
        /\ rq'[r].skipped # q.skipped =>
               /\ rq'[r].skipped = q.skipped \cup {q.model}
               /\ rq'[r].model = q.model + 1
               /\ rq'[r].attempt = 0
               /\ rq'[r].pc = "try"
               /\ rq'[r].invoked = q.invoked
               /\ cb' = cb
        \* a model that was turned away is not entered again
        /\ \A i \in 1 .. Len(model_priorities) :
               rq'[r].invoked[i] > q.invoked[i] => i \notin q.skipped

\* C11: when the breaker of a model raises AIServiceUnavailableError, the
\* request stands at the first attempt of the next model right after: the
\* model's prediction was not entered, the request does not sleep, the breaker
\* is as it was, and the model is not entered again in this request.
C11_SkipsOpenBreaker == [][C11_Step]_vars

C11_Witness ==
    \E r \in Requests :
        /\ ev.op = "guard"
        /\ rq[r].skipped = {1}
        /\ rq[r].invoked[1] = 1
        /\ rq[r].model = 2
        /\ rq[r].pc = "try"
        /\ rq[r].attempt = 0

\* every model before index i was turned away by its breaker or entered
\* max_attempts times
HigherDone(q, i) ==
    \A j \in 1 .. i - 1 : j \in q.skipped \/ q.invoked[j] = max_attempts

C12_Step ==
    \A r \in Requests :
        LET q == rq[r] IN
        \* model_priorities lists the models by descending priority
        /\ \A i, j \in 1 .. Len(model_priorities) :
               i < j => priority_of[i] > priority_of[j]
        \* a model is entered only when every model before it is done with
        /\ \A i \in 1 .. Len(model_priorities) :
               rq'[r].invoked[i] > q.invoked[i] =>
                   /\ i = q.model
                   /\ rq'[r].invoked[i] = q.invoked[i] + 1
                   /\ q.invoked[i] = q.attempt
                   /\ HigherDone(q, i)
        \* the first valid result is returned, tagged with its model
        /\ (ev'.op \in {"success", "result"} /\ ev'.who = r) =>
               (rq'[r].pc = "returned" <=> rq'[r].result # NoResult)
        /\ rq'[r].pc = "returned" =>
               /\ rq'[r].result.valid
               /\ rq'[r].result.model_used = model_priorities[rq'[r].model]
               /\ rq'[r].result.attempt = rq'[r].invoked[rq'[r].model]
               /\ \A i \in rq'[r].model + 1 .. Len(model_priorities) :
                      rq'[r].invoked[i] = 0 /\ i \notin rq'[r].skipped
        \* and nothing is entered after it
        /\ q.pc = "returned" => rq'[r] = q

\* C12: the models are entered in the order of model_priorities, which is by
\* descending priority: a model's prediction is entered only when every
\* earlier model was turned away by its breaker or entered max_attempts
\* times; the first result that passes _is_prediction_valid ends the request,
\* which returns it tagged with the model that gave it, no later model having
\* been entered.
C12_PriorityOrderFirstValid == [][C12_Step]_vars

C12_Witness ==
    \E r \in Requests :
        /\ rq[r].pc = "returned"
        /\ rq[r].result.model_used = "anthropic"
        /\ rq[r].result.attempt = 2
        /\ rq[r].skipped = {1}
        /\ rq[r].invoked[2] = max_attempts
        /\ rq[r].invoked[4] = 0

(***************************************************************************)
(* Claims about safe_predict_fields (SpecSafe).                            *)
(***************************************************************************)
\* the limits of the rate limiter bind at this moment
LimitsBind ==
    \/ Len(recentAdmits) >= requests_per_minute
    \/ billed[current_hour(now)] + cost_per_request > max_hourly_cost

C13_Step ==
    \A c \in Callers :
        \* a call that starts while the limits bind goes to the regex-only
        \* prediction; predict_fields is not entered, nothing is recorded and
        \* the breaker is not touched
        /\ (sp[c].pc = "idle" /\ sp'[c] # sp[c] /\ LimitsBind) =>
               /\ sp'[c].pc = "regex_only"
               /\ sp'[c].denied
               /\ sp'[c].paid = 0
               /\ cb' = cb
               /\ hourly_costs' = hourly_costs
               /\ ev'.op \in {"rate_denied", "cost_denied"}
        \* a denied call never enters predict_fields and ends only by returning
        \* the regex-only result
        /\ sp'[c].denied =>
               /\ sp'[c].paid = 0
               /\ sp'[c].pc \in {"regex_only", "idle"}
               /\ sp'[c].pc = "idle" => sp'[c].out = "regex_only"
        \* no call ends with the limiter's exception
        /\ sp'[c].out \notin {"rate_limit_exceeded", "cost_limit_exceeded"}

\* C13: when check_rate_limit raises RateLimitExceededError or
\* CostLimitExceededError, safe_predict_fields does not raise it to its caller:
\* predict_fields is not entered for that call, no cost is recorded, and the
\* call returns the result of the regex-only prediction.
C13_DenialFallsBack == [][C13_Step]_vars

C13_Witness ==
    \E c, d \in Callers :
        /\ sp[c].pc = "idle"
        /\ sp[c].denied
        /\ sp[c].out = "regex_only"
        /\ ev.op = "result"
        /\ ev.who = c
        /\ sp[d].pc = "in_call"
        /\ billed[current_hour(now)] = max_hourly_cost

(***************************************************************************)
(* Claims about the validation of corrections (SpecVal).                   *)
(***************************************************************************)
Returned(by) == val.by = by /\ val.state = "returned"

Critical(w) == \E k \in 1 .. Len(w) : w[k] = "CRITICAL:"
Has(warnings, w) == \E i \in 1 .. Len(warnings) : warnings[i] = w
HasAll(warnings, ws) == \A i \in 1 .. Len(ws) : Has(warnings, ws[i])

\* C14: validate_correction returns is_valid = True exactly when no warning
\* of the returned list is critical (warnings that are not critical never
\* make it False), and the returned list holds every warning a check
\* produced: the type mismatch, the date and party warnings of the context
\* check, the warnings of the legal check, of the pattern check and of the
\* confidence check.
C14_ValidIffNoCritical ==
    Returned("validate_correction") =>
        LET a == val.args
            r == val.result
        IN  /\ r.is_valid <=> \A i \in 1 .. Len(r.warnings) : ~Critical(r.warnings[i])
            /\ (a.type \in {"email", "date"} /\ ~a.format_ok)
                   => Has(r.warnings, TypeMismatch(a.type))
            /\ (a.context /\ a.fieldName = <<"effective_date">>)
                   => HasAll(r.warnings, a.date_warnings)
            /\ (a.context /\ a.fieldName = <<"Party", "_name">>)
                   => HasAll(r.warnings, a.party_warnings)
            /\ (a.type \in {"party", "date"} /\ \A k \in 1 .. Len(a.correctedValue) :
                                                     a.correctedValue[k] = " ")
                   => Has(r.warnings, EmptyRequired(a.type))
            /\ (a.type = "signature" /\ Len(a.correctedValue) < 2)
                   => Has(r.warnings, SignatureIncomplete)
            /\ HasAll(r.warnings, a.pattern_warnings)
            /\ HasAll(r.warnings, a.confidence_warnings)

C14_Witness ==
    /\ Returned("validate_correction")
    /\ val.result.is_valid
    /\ Len(val.result.warnings) >= 3
    /\ val.args.type = "signature"
    /\ val.args.correctedValue = <<>>

\* C15: every correction that sets a field of a legally required type (party,
\* date, signature) to the empty string is refused by validate_correction:
\* is_valid is False and a critical warning is returned.
C15_EmptyRequiredIsCritical ==
    (/\ Returned("validate_correction")
     /\ val.args.type \in {"party", "date", "signature"}
     /\ val.args.correctedValue = <<>>)
        => /\ ~val.result.is_valid
           /\ \E i \in 1 .. Len(val.result.warnings) : Critical(val.result.warnings[i])

\* C16 as stated: a correction whose corrected value equals the predicted
\* value is not refused for that: with a valid reason, isValid is true and the
\* equality is reported as a warning.
C16_NoChangeOnlyWarns ==
    (/\ Returned("validateUserCorrection")
     /\ val.args.correctedValue = val.args.predictedValue
     /\ val.args.correctionReason \in CorrectionReasons)
        => /\ val.result.isValid
           /\ val.result.warnings # <<>>

\* C16 as amended: a correction whose corrected value equals the predicted
\* value is refused: isValid is false, data is undefined, the errors hold
\* NO_CHANGE with severity "error", and no warning is returned; a correction
\* is valid exactly when its reason is one of CorrectionReason and its value
\* differs from the predicted one.
C16_NoChangeIsRefused ==
    Returned("validateUserCorrection") =>
        LET a == val.args
            r == val.result
        IN  /\ a.correctedValue = a.predictedValue =>
                   /\ ~r.isValid
                   /\ r.data = "undefined"
                   /\ \E i \in 1 .. Len(r.errors) :
                          r.errors[i].code = "NO_CHANGE" /\ r.errors[i].severity = "error"
            /\ r.warnings = <<>>
            /\ r.isValid <=> (/\ a.correctionReason \in CorrectionReasons
                              /\ a.correctedValue # a.predictedValue)

C16_Witness ==
    /\ Returned("validateUserCorrection")
    /\ val.args.correctedValue = val.args.predictedValue
    /\ val.args.correctedValue # <<>>
    /\ val.args.correctionReason = "incorrect_value"
    /\ val.result.errors = <<NO_CHANGE>>

(***************************************************************************)
(* Claims about the routing of corrections (SpecBP).                       *)
(***************************************************************************)
Processed == ev'.op = "process"

C17_Step ==
    Processed =>
        LET confidence == ev'.confidence
            critical == ev'.reason = "critical_error"
        IN  /\ (confidence < 50 \/ critical) => ev'.priority = "immediate"
            /\ (~critical /\ confidence >= 50 /\ confidence < 80)
                   => ev'.priority = "batch"
            /\ (~critical /\ confidence >= 80) => ev'.priority = "learning"
            \* the correction goes where its priority says
            /\ ev'.priority = "immediate" =>
                   /\ bp' = bp
            /\ ev'.priority = "batch" =>
                   /\ bp'.learningQueue = bp.learningQueue
                   /\ \/ bp'.batchQueue # bp.batchQueue
                      \/ ev'.flushed > 0
            /\ ev'.priority = "learning" =>
                   /\ Len(bp'.learningQueue) = Len(bp.learningQueue) + 1
                   /\ bp'.batchQueue = bp.batchQueue

C18_Step ==
    (Processed /\ ev'.confidence >= 80 /\ ev'.reason # "critical_error") =>
        LET f == ev'.field
            before == IF f \in DOMAIN field_snapshots
                      THEN field_snapshots[f] ELSE <<>>
        IN  /\ f \in DOMAIN field_snapshots'
            /\ Len(field_snapshots'[f]) = Len(before) + 1
            /\ Last(field_snapshots'[f]).new_value = ev'.value
            /\ Last(correction_history'[f]).correctedValue = ev'.value
            \* while the correction still waits in the learning queue
            /\ Len(bp'.learningQueue) = Len(bp.learningQueue) + 1
            /\ Last(bp'.learningQueue).value = ev'.value

C19_Step ==
    \* the batch never holds more than maxBatchSize corrections, and a batch
    \* that waits has waited at most maxWaitTime
    /\ Len(bp'.batchQueue) <= maxBatchSize
    /\ bp'.batchQueue # <<>> => (bp'.timer >= 0 /\ bp'.timer <= maxWaitTime)
    \* the correction that fills the batch flushes it
    /\ (Processed /\ ev'.priority = "batch"
            /\ Len(bp.batchQueue) + 1 >= maxBatchSize)
           => (bp'.batchQueue = <<>> /\ ev'.flushed = Len(bp.batchQueue) + 1)
    \* a batch that is not full is flushed by nothing but the timer, at
    \* maxWaitTime, and whole
    /\ (Processed /\ ev'.priority = "batch"
            /\ Len(bp.batchQueue) + 1 < maxBatchSize)
           => (bp'.batchQueue = Append(bp.batchQueue, Last(bp'.batchQueue))
               /\ Last(bp'.batchQueue).value = ev'.value
               /\ ev'.flushed = 0)
    /\ (bp.batchQueue # <<>> /\ bp'.batchQueue = <<>>) =>
           \/ Processed /\ ev'.flushed = maxBatchSize
           \/ ev'.op = "timer" /\ bp.timer = maxWaitTime
                  /\ ev'.flushed = Len(bp.batchQueue)
    \* time does not pass maxWaitTime with the batch unflushed
    /\ (ev'.op = "tick" /\ bp.batchQueue # <<>>) => bp.timer < maxWaitTime

C20_LatestTimestampWins ==
    (/\ cr.state = "returned"
     /\ cr.strategy \in {"timestamp", "latest"}
     /\ Len(cr.corrections) >= 2)
        => /\ \E i \in 1 .. Len(cr.corrections) : cr.corrections[i] = cr.result
           /\ \A i \in 1 .. Len(cr.corrections) :
                  cr.corrections[i].timestamp <= cr.result.timestamp
           /\ Len(cr.corrections) = 2 =>
                  /\ cr.corrections[1].timestamp < cr.corrections[2].timestamp
                         => cr.result = cr.corrections[2]
                  /\ cr.corrections[2].timestamp < cr.corrections[1].timestamp
                         => cr.result = cr.corrections[1]

C20_Witness ==
    /\ cr.state = "returned"
    /\ cr.strategy = "timestamp"
    /\ Len(cr.corrections) = 2
    /\ cr.corrections[2].timestamp < cr.corrections[1].timestamp
    /\ cr.corrections[2].confidenceScore > cr.corrections[1].confidenceScore
    /\ cr.result = cr.corrections[1]

(***************************************************************************)
(* C21: under the "manual" strategy a conflict of two or more corrections  *)
(* gets no winner: the call returns the whole conflict for a human         *)
(* decision, and no version of the field is appended from that conflict.   *)
(***************************************************************************)
ManualConflict ==
    /\ cr.state \in {"returned", "committed"}
    /\ cr.strategy = "manual"
    /\ Len(cr.corrections) >= 2

HasVersion(f, target_version) ==
    /\ f \in DOMAIN field_snapshots
    /\ \E i \in 1 .. Len(field_snapshots[f]) :
           field_snapshots[f][i].version_id = target_version

C22_Step ==
    /\ ev'.op = "rollback" =>
           /\ ev'.field \in DOMAIN field_snapshots
           /\ ev'.target_version # NoVersion =>
                  HasVersion(ev'.field, ev'.target_version)
    /\ ev'.op = "rollback_error" =>
           /\ UNCHANGED <<correction_history, field_snapshots, wrote>>
           /\ ev'.field \notin DOMAIN field_snapshots =>
                  ev'.error = "no_history"
           /\ (/\ ev'.field \in DOMAIN field_snapshots
               /\ ev'.target_version # NoVersion
               /\ ~HasVersion(ev'.field, ev'.target_version)) =>
                  ev'.error = "version_not_found"

C22_FailedRollbackChangesNothing == [][C22_Step]_vars

C22_Witness ==
    /\ ev.op = "rollback_error"
    /\ ev.error = "version_not_found"
    /\ ev.target_version[1] = ev.field
    /\ Len(field_snapshots[ev.field]) = 1
    /\ \E g \in DOMAIN field_snapshots : g # ev.field

(***************************************************************************)
(* C23: a rollback without target that directly follows a rollback without *)
(* target of the same field makes the latest value the one that was the    *)
(* latest before the first of the two, and each rollback appends exactly   *)
(* one version.                                                            *)
(***************************************************************************)
DefaultRollback(e, f) ==
    /\ e.op = "rollback"
    /\ e.field = f
    /\ e.target_version = NoVersion

C23_Step ==
    \A f \in Fields :
        /\ (DefaultRollback(ev', f) /\ field_snapshots' # field_snapshots) =>
               Len(field_snapshots'[f]) = Len(field_snapshots[f]) + 1
        /\ (/\ DefaultRollback(ev, f)
            /\ DefaultRollback(ev', f)
            /\ field_snapshots' # field_snapshots) =>
               Last(field_snapshots'[f]).new_value
                   = field_snapshots[f][Len(field_snapshots[f]) - 1].new_value

C23_RollbackTwiceRestores == [][C23_Step]_vars

(***************************************************************************)
(* C24: with calls of one breaker in flight at the same time, every call   *)
(* that ends in failure raises failure_count by exactly one, every success *)
(* recorded in HALF_OPEN raises success_count by exactly one, no failure   *)
(* since the last success is missing from failure_count, and the breaker   *)
(* is never CLOSED with failure_count at failure_threshold or above.       *)
(***************************************************************************)
C24_Step ==
    \A m \in Models :
        /\ (ev'.op = "failure" /\ ev'.model = m) =>
               cb'[m].failure_count = cb[m].failure_count + 1
        /\ (ev'.op = "success" /\ ev'.model = m /\ cb[m].state = HALF_OPEN) =>
               cb'[m].success_count = cb[m].success_count + 1
        /\ cb'[m].failure_count >= consecFail'[m]
        /\ cb'[m].state = CLOSED => cb'[m].failure_count < failure_threshold

C24_NoLostUpdate == [][C24_Step]_vars

\* a call fails while another call of the same breaker is in flight, after
\* the breaker has opened
C24_Witness ==
    /\ ev.op = "failure"
    /\ \E c \in Callers \ {ev.who} : cbpc[c] = "in_call"
    /\ cb[CBModel].failure_count > failure_threshold
    /\ cb[CBModel].failure_count = consecFail[CBModel]

(***************************************************************************)
(* C25 as stated: after the cancellation of an attempt the breaker of its  *)
(* model has the state, failure_count, success_count and last_failure_time *)
(* it had before the attempt, and the cancelled request calls no model     *)
(* any more.                                                               *)
(***************************************************************************)
Cancelling(r) == ev'.op = "cancel" /\ ev'.who = r

Frozen(r) ==
    /\ Cancelling(r) => rq'[r].pc = "cancelled"
    /\ rq[r].pc = "cancelled" => rq'[r] = rq[r]

C25_StepAsStated ==
    \A r \in Requests :
        /\ (Cancelling(r) /\ rq[r].pc = "in_call"
                /\ ev'.model # REGEX_FALLBACK) =>
               cb'[ev'.model] = rq[r].before
        /\ Cancelling(r) => cb' = cb
        /\ Frozen(r)

C25_CancelLeavesHealthAsBeforeAttempt == [][C25_StepAsStated]_vars

(***************************************************************************)
(* C25: the cancellation of an attempt records neither a success nor a     *)
(* failure: no breaker changes in the cancellation, failure_count and      *)
(* last_failure_time of the model's breaker are those before the attempt,  *)
(* its state and success_count are those before the attempt unless the     *)
(* attempt found it OPEN past recovery_timeout, in which case it stays     *)
(* HALF_OPEN with success_count 0; the cancelled request calls no model    *)
(* any more.                                                               *)
(***************************************************************************)
C25_Step ==
    \A r \in Requests :
        /\ (Cancelling(r) /\ rq[r].pc = "in_call"
                /\ ev'.model # REGEX_FALLBACK) =>
               LET b == cb'[ev'.model]
                   b0 == rq[r].before
               IN  /\ b.failure_count = b0.failure_count
                   /\ b.last_failure_time = b0.last_failure_time
                   /\ IF b0.state = OPEN
                      THEN b.state = HALF_OPEN /\ b.success_count = 0
                      ELSE b.state = b0.state
                               /\ b.success_count = b0.success_count
        /\ Cancelling(r) => cb' = cb
        /\ Frozen(r)

C25_CancelRecordsNothing == [][C25_Step]_vars

C25_Witness ==
    \E r \in Requests :
        /\ rq[r].pc = "cancelled"
        /\ ev.op = "cancel"
        /\ ev.model = "openai"
        /\ rq[r].before.state = OPEN
        /\ cb["openai"].state = HALF_OPEN
        /\ rq[r].invoked[1] = max_attempts

(***************************************************************************)
(* C26: when a model hands back a result that _is_prediction_valid turns   *)
(* down, the model's breaker records a failure: failure_count goes up by   *)
(* one and is not reset, success_count stays, and the breaker does not     *)
(* close.                                                                  *)
(***************************************************************************)
\* the step in which the prediction of r's model came back and was found
\* implausible
ImplausibleReturn(r) ==
    /\ rq[r].pc = "in_call"
    /\ ev'.op = "success"
    /\ ev'.who = r
    /\ rq'[r].pc # "returned"

C26_Step ==
    \A r \in Requests :
        ImplausibleReturn(r) =>
            LET m == ev'.model IN
            /\ cb'[m].failure_count = cb[m].failure_count + 1
            /\ cb'[m].success_count = cb[m].success_count
            /\ cb[m].state # CLOSED => cb'[m].state # CLOSED

C26_ImplausibleCountsAsFailure == [][C26_Step]_vars

(***************************************************************************)
(* C27: within a request the prediction of each model is entered at most   *)
(* max_attempts times; the request sleeps only after an attempt that is    *)
(* not the model's last, and the sleep is followed by the next attempt on  *)
(* the same model (or by the cancellation of the request); so a request    *)
(* ends after at most Len(model_priorities) * max_attempts predictions.    *)
(***************************************************************************)
RECURSIVE SumTo(_, _)
SumTo(counts, n) ==
    IF n = 0 THEN 0 ELSE counts[n] + SumTo(counts, n - 1)

Invocations(q) == SumTo(q.invoked, Len(model_priorities))

C27_Step ==
    \A r \in Requests :
        LET q == rq[r]
            q2 == rq'[r]
        IN  /\ \A i \in 1 .. Len(model_priorities) :
                   q2.invoked[i] <= max_attempts
            /\ Invocations(q2) <= Len(model_priorities) * max_attempts
            /\ q2.pc = "sleeping" =>
                   /\ q2.invoked[q2.model] = q2.attempt + 1
                   /\ q2.invoked[q2.model] < max_attempts
            /\ (q.pc = "sleeping" /\ q2 # q) =>
                   \/ q2.pc = "cancelled"
                   \/ /\ q2.pc = "try"
                      /\ q2.model = q.model
                      /\ q2.attempt = q.attempt + 1
            /\ (q.pc # "sleeping" /\ q2.pc = "sleeping") =>
                   q.pc = "in_call" /\ q2.model = q.model

C27_BoundedAttempts == [][C27_Step]_vars

C27_Witness ==
    \E r \in Requests :
        /\ rq[r].pc = "raised"
        /\ \A i \in 1 .. Len(model_priorities) :
               rq[r].invoked[i] = max_attempts
        /\ Invocations(rq[r]) = Len(model_priorities) * max_attempts

(***************************************************************************)
(* C28 as stated: contractDates reports no issue for two valid dates of    *)
(* which the start is equal to or earlier than the end.                    *)
(***************************************************************************)
ValidDates ==
    /\ Returned("contractDates")
    /\ ~isNaN(getTime(val.args.startDate))
    /\ ~isNaN(getTime(val.args.endDate))

C28_NoIssueUnlessStartAfterEnd ==
    (ValidDates /\ val.args.startDate.day <= val.args.endDate.day) =>
        val.result.isValid /\ val.result.errors = <<>>

(***************************************************************************)
(* C28: for two valid dates contractDates reports no issue exactly when    *)
(* the start is earlier than the end; a start equal to or later than the   *)
(* end gives the one error INVALID_DATE_RANGE.  Never a warning.           *)
(***************************************************************************)
C28_StartMustPrecedeEnd ==
    ValidDates =>
        /\ val.result.warnings = <<>>
        /\ val.result.isValid = (val.result.errors = <<>>)
        /\ IF val.args.startDate.day < val.args.endDate.day
           THEN val.result.errors = <<>>
           ELSE val.result.errors = <<INVALID_DATE_RANGE>>

C28_Witness ==
    /\ ValidDates
    /\ val.args.startDate.day = val.args.endDate.day
    /\ val.args.startDate # val.args.endDate
    /\ ~val.result.isValid
    /\ val.result.errors = <<INVALID_DATE_RANGE>>

(***************************************************************************)
(* C29: the regex fallback is not called through a breaker.  A request     *)
(* that stands at the fallback enters its prediction in its next step,     *)
(* whatever the breakers' states; no step of the fallback (call, result,   *)
(* exception) changes a breaker, the fallback is never skipped, and the    *)
(* breaker made for its name stays as constructed however often the        *)
(* fallback failed.                                                        *)
(***************************************************************************)
AtFallback(q) == model_name(q) = REGEX_FALLBACK

C29_Step ==
    \A r \in Requests :
        /\ (rq[r].pc = "try" /\ AtFallback(rq[r]) /\ rq'[r] # rq[r]) =>
               /\ rq'[r].pc = "in_call"
               /\ rq'[r].invoked[rq[r].model] = rq[r].invoked[rq[r].model] + 1
               /\ ev'.op = "call"
        /\ (AtFallback(rq[r]) /\ rq'[r] # rq[r]) =>
               cb' = cb /\ consecFail' = consecFail
        /\ \A i \in rq'[r].skipped : model_priorities[i] # REGEX_FALLBACK
        /\ cb'[REGEX_FALLBACK] = NewBreaker

C29_FallbackNotGated == [][C29_Step]_vars

\* the third call of the fallback, after two failures of it, with the
\* breaker of every model OPEN
C29_Witness ==
    \E r \in Requests :
        /\ rq[r].pc = "in_call"
        /\ AtFallback(rq[r])
        /\ rq[r].invoked[rq[r].model] = max_attempts
        /\ rq[r].last_error = "failed"
        /\ \A m \in Models : cb[m].state = OPEN

(***************************************************************************)
(* C30: no change is lost across a save.  When a saveChanges ends with     *)
(* success, every change that was pending (those added while the request   *)
(* was in flight among them) is still in pendingChanges or has been passed *)
(* to saveFieldUpdates; when it ends in failure, pendingChanges is as it   *)
(* was.                                                                    *)
(***************************************************************************)
C30_Step ==
    /\ ev'.op = "save_succeeded" =>
           \A c \in Range(autoSave.pendingChanges) :
               \/ c \in Range(autoSave'.pendingChanges)
               \/ c \in autoSave'.sent
    /\ ev'.op = "save_failed" =>
           autoSave'.pendingChanges = autoSave.pendingChanges

C30_NoChangeLost == [][C30_Step]_vars

====
